---- MODULE Spec2Model ----
(***************************************************************************)
(* Reservation lifecycle of the call backend: the CallReservation table    *)
(* (prisma/schema.prisma) and the handlers of the reservation controller   *)
(* (createReservation, getReservationById, updateReservation,              *)
(* updateExpiredReservations) that read and write it.                      *)
(*                                                                         *)
(* Strings that the code orders or parses (dates, times, the :id route     *)
(* parameter, the required body fields) are sequences of character codes,  *)
(* so that comparison, formatting and parseInt are computed, not assumed.  *)
(* An optional value is a sequence of length 0 (absent / NULL) or 1.       *)
(*                                                                         *)
(* Also modelled: the call router of the twilio controller (voiceResponse, *)
(* incomingCall), which reads only its request and the configured caller   *)
(* id, and the expiry sweep taken apart into its batch read and its        *)
(* per-record writes, for the runs where sweeps overlap each other, an     *)
(* Update, or a crash.                                                     *)
(***************************************************************************)
EXTENDS Integers, Sequences, FiniteSets, TLC

VARIABLES
    callReservation,  \* the table: rows in insertion order
    nextId,           \* the autoincrement sequence behind CallReservation.id
    now,              \* the wall clock, minutes since 2025-01-01T00:00Z
    tz,               \* the server's local-time offset from UTC, minutes
    lastReq,          \* the request most recently handled
    lastRes,          \* the response sent for it
    steps,            \* number of steps taken (requests handled, clock ticks)
    twilioCallerId,   \* config.twilio.callerId: the verified number, if any
    callReq,          \* the call event most recently routed
    callRes,          \* what its handler did: the TwiML sent, or a throw
    sweeps,           \* the sweep requests in progress, one record each
    startStore        \* history: the table as the server found it

\* The reservation side, the router side, the sweeps in progress.
resVars == <<callReservation, nextId, now, tz, lastReq, lastRes, steps>>

routerVars == <<twilioCallerId, callReq, callRes>>

sweepVars == <<sweeps, startStore>>

vars == <<callReservation, nextId, now, tz, lastReq, lastRes, steps,
          twilioCallerId, callReq, callRes, sweeps, startStore>>

----------------------------------------------------------------------------
(* Bounds *)

\* Length of the runs explored from each initial store.
MaxSteps == 2

----------------------------------------------------------------------------
(* Optional values *)

None == <<>>

Some(v) == <<v>>

Val(o) == o[1]

----------------------------------------------------------------------------
(* Strings as character codes *)

\* "2025-01-" : the year and month part of every date in the explored window
DatePrefix == <<50, 48, 50, 53, 45, 48, 49, 45>>

\* n.toString().padStart(2, "0") for 0 <= n <= 99
PadStart2(n) ==
    IF n < 10 THEN <<48, 48 + n>> ELSE <<48 + (n \div 10), 48 + (n % 10)>>

\* String order as the store compares text columns: code by code, a proper
\* prefix first.
RECURSIVE StrLt(_, _)
StrLt(a, b) ==
    IF b = <<>> THEN FALSE
    ELSE IF a = <<>> THEN TRUE
    ELSE IF Head(a) # Head(b) THEN Head(a) < Head(b)
    ELSE StrLt(Tail(a), Tail(b))

IsDigit(c) == c \in 48..57

RECURSIVE TrimStart(_)
TrimStart(s) ==
    IF s # <<>> /\ Head(s) = 32 THEN TrimStart(Tail(s)) ELSE s

RECURSIVE LeadingDigits(_)
LeadingDigits(s) ==
    IF s # <<>> /\ IsDigit(Head(s))
    THEN <<Head(s)>> \o LeadingDigits(Tail(s))
    ELSE <<>>

RECURSIVE DigitsValue(_, _)
DigitsValue(ds, acc) ==
    IF ds = <<>> THEN acc
    ELSE DigitsValue(Tail(ds), 10 * acc + (Head(ds) - 48))

\* JavaScript parseInt(str, 10): leading blanks skipped, an optional sign,
\* then the longest run of digits; whatever follows is ignored.  None is NaN.
ParseInt(str) ==
    LET s      == TrimStart(str)
        signed == s # <<>> /\ Head(s) \in {43, 45}
        body   == IF signed THEN Tail(s) ELSE s
        ds     == LeadingDigits(body)
        mag    == DigitsValue(ds, 0)
    IN  IF ds = <<>> THEN None
        ELSE IF signed /\ Head(s) = 45 THEN Some(0 - mag)
        ELSE Some(mag)

----------------------------------------------------------------------------
(* Clock *)

\* now.toISOString().split("T")[0] : the UTC calendar date
Today(t) == DatePrefix \o PadStart2((t \div (24 * 60)) + 1)

\* getHours():getMinutes(), both padded: the LOCAL time of day
CurrentTime(t, offset) ==
    LET local == (t + offset) % (24 * 60)
    IN  PadStart2(local \div 60) \o <<58>> \o PadStart2(local % 60)

----------------------------------------------------------------------------
(* Values the explored requests and stores are built from *)

\* "al"
UserAl == <<97, 108>>

\* "2025-01-01", "2025-01-02"
Date0101 == DatePrefix \o <<48, 49>>

Date0102 == DatePrefix \o <<48, 50>>

\* "08:00", "09:00", "12:00", "18:00"
Time0800 == <<48, 56, 58, 48, 48>>

Time0900 == <<48, 57, 58, 48, 48>>

Time1200 == <<49, 50, 58, 48, 48>>

Time1800 == <<49, 56, 58, 48, 48>>

\* 2025-01-02T12:00Z, the clock when the server starts
StartNow == (24 + 12) * 60

\* The clock advances in half days.
TickMinutes == 12 * 60

\* Local-time offsets of the servers explored.
TzOffsets == {0}

\* When the rows already in the store were written: 2025-01-01T00:00Z
Epoch == 0 * 60

\* An updatedAt a client supplies in an Update body: 2025-01-01T01:00Z
ClientUpdatedAt == 1 * 60

----------------------------------------------------------------------------
(* The CallReservation table *)

\* The status values the schema documents.
Statuses == {"scheduled", "ongoing", "completed", "cancelled"}

\* model CallReservation: one row.  origId is history, not a column: the id
\* the row was inserted with.
NewRow(id, username, date, start, end, phone, t) ==
    [id              |-> id,
     origId          |-> id,
     username        |-> username,
     reservationDate |-> date,
     startTime       |-> start,
     endTime         |-> end,
     status          |-> "scheduled",
     phoneNumber     |-> phone,
     callDuration    |-> None,
     createdAt       |-> t,
     updatedAt       |-> t]

Ids(table) == {table[k].id : k \in DOMAIN table}

HasId(table, id) == id \in Ids(table)

IndexOf(table, id) == CHOOSE k \in DOMAIN table : table[k].id = id

\* The rows of the table as a set.
RowSet(table) == {table[k] : k \in DOMAIN table}

----------------------------------------------------------------------------
(* Requests and responses *)

\* An Update body (also the data of any prisma update): every key optional.
\* callDuration, when supplied, is null (None) or a number (Some(n)).
NoData == [status |-> None, callDuration |-> None, id |-> None, updatedAt |-> None]

Req(op, id, body, t) == [op |-> op, id |-> id, body |-> body, at |-> t]

\* res.status(code).json({success, data}) : data is the set of records sent
Res(code, data) == [code |-> code, data |-> data]

\* handleError: every caught exception is answered 500
handleError == Res(500, {})

----------------------------------------------------------------------------
(* The storage collaborator, as the handlers use it *)

\* prisma.callReservation.update: the supplied keys are written, the others
\* kept; updatedAt (@updatedAt) is set to the clock unless the data supplies
\* it.
ApplyData(r, data, t) ==
    [r EXCEPT
        !.status       = IF data.status # None THEN Val(data.status) ELSE @,
        !.callDuration = IF data.callDuration # None
                         THEN Val(data.callDuration) ELSE @,
        !.id           = IF data.id # None THEN Val(data.id) ELSE @,
        !.updatedAt    = IF data.updatedAt # None THEN Val(data.updatedAt) ELSE t]

\* The update throws when no row has the id (record not found) or when the
\* new id is another row's (the primary key is unique).
UpdateThrows(table, id, data) ==
    \/ ~HasId(table, id)
    \/ /\ data.id # None
       /\ Val(data.id) # id
       /\ HasId(table, Val(data.id))

UpdateRow(table, id, data, t) ==
    [table EXCEPT ![IndexOf(table, id)] = ApplyData(@, data, t)]

----------------------------------------------------------------------------
(* createReservation *)

\* !field : the field is missing from the body, or is the empty string
Falsy(o) == o = None \/ Val(o) = <<>>

\* Variant: endTime is only tested for being present, not for being empty.
CreateInvalidEndTimePresentOnly(body) ==
    \/ Falsy(body.username)
    \/ Falsy(body.reservationDate)
    \/ Falsy(body.startTime)
    \/ body.endTime = None

CreateInvalid(body) ==
    \/ Falsy(body.username)
    \/ Falsy(body.reservationDate)
    \/ Falsy(body.startTime)
    \/ Falsy(body.endTime)

\* Variant: a status carried by the body is passed on to the insert.
CreateDataWithStatus(id, body, t) ==
    [NewRow(id, Val(body.username), Val(body.reservationDate),
            Val(body.startTime), Val(body.endTime), body.phoneNumber, t)
        EXCEPT !.status = IF body.status # None THEN Val(body.status) ELSE @]

\* The data handed to prisma.callReservation.create: the five destructured
\* fields; status, callDuration and the timestamps take the schema defaults.
CreateData(id, body, t) ==
    NewRow(id, Val(body.username), Val(body.reservationDate),
           Val(body.startTime), Val(body.endTime), body.phoneNumber, t)

BaseCreate ==
    [username        |-> Some(UserAl),
     reservationDate |-> Some(Date0102),
     startTime       |-> Some(Time0800),
     endTime         |-> Some(Time1800),
     phoneNumber     |-> None,
     status          |-> None]

Required == {"username", "reservationDate", "startTime", "endTime"}

\* The Create bodies explored: complete ones (one carrying a status, one a
\* phone number, one already overdue) and ones with a required field missing
\* or empty.
CreateBodies ==
    {BaseCreate,
     [BaseCreate EXCEPT !.status = Some("completed")],
     [BaseCreate EXCEPT !.phoneNumber = Some("+15550100")],
     [BaseCreate EXCEPT !.reservationDate = Some(Date0101)]}
    \cup {[BaseCreate EXCEPT ![f] = None] : f \in Required}
    \cup {[BaseCreate EXCEPT ![f] = Some(<<>>)] : f \in Required}

createReservation(body) ==
    /\ lastReq' = Req("create", None, body, now)
    /\ IF CreateInvalid(body)
       THEN /\ lastRes' = Res(400, {})
            /\ UNCHANGED <<callReservation, nextId>>
       ELSE \* the insert draws the next value of the id sequence, kept or not
            /\ nextId' = nextId + 1
            /\ IF HasId(callReservation, nextId)
               THEN /\ lastRes' = handleError
                    /\ UNCHANGED callReservation
               ELSE LET r == CreateData(nextId, body, now)
                    IN  /\ callReservation' = Append(callReservation, r)
                        /\ lastRes' = Res(201, {r})
    /\ UNCHANGED <<now, tz>>

----------------------------------------------------------------------------
(* getReservationById *)

\* The :id route parameters explored: "1", "2", "7", "abc", "1abc", "0", "-1"
IdParams ==
    {<<49>>, <<50>>, <<55>>, <<97, 98, 99>>, <<49, 97, 98, 99>>, <<48>>,
     <<45, 49>>}

getReservationById(id) ==
    LET parsedId == ParseInt(id)
    IN  /\ lastReq' = Req("get", Some(id), NoData, now)
        /\ lastRes' =
              IF id = <<>> THEN Res(400, {})
              ELSE IF parsedId = None THEN Res(400, {})
              ELSE IF ~HasId(callReservation, Val(parsedId)) THEN Res(404, {})
              ELSE Res(200, {callReservation[IndexOf(callReservation, Val(parsedId))]})
        /\ UNCHANGED <<callReservation, nextId, now, tz>>

----------------------------------------------------------------------------
(* updateReservation *)

\* The Update bodies explored: a status (documented or not), a callDuration
\* (a number or null), both, an id, an updatedAt.
UpdateBodies ==
    {[NoData EXCEPT !.status = Some(s)] : s \in Statuses \cup {"bogus"}}
    \cup {[NoData EXCEPT !.callDuration = Some(d)] : d \in {None, Some(45)}}
    \cup {[NoData EXCEPT !.status = Some("completed"), !.callDuration = Some(Some(45))],
          [NoData EXCEPT !.id = Some(3)],
          [NoData EXCEPT !.updatedAt = Some(ClientUpdatedAt)]}

\* The :id parameters of the explored Updates: "1", "2", "7", "abc"
UpdateIdParams == {<<49>>, <<50>>, <<55>>, <<97, 98, 99>>}

updateReservation(id, body) ==
    LET parsed_id == ParseInt(id)
    IN  /\ lastReq' = Req("update", Some(id), body, now)
        /\ IF parsed_id = None \/ UpdateThrows(callReservation, Val(parsed_id), body)
           THEN /\ lastRes' = handleError
                /\ UNCHANGED callReservation
           ELSE LET k == IndexOf(callReservation, Val(parsed_id))
                IN  /\ callReservation' =
                          UpdateRow(callReservation, Val(parsed_id), body, now)
                    /\ lastRes' = Res(200, {callReservation'[k]})
        /\ UNCHANGED <<nextId, now, tz>>

----------------------------------------------------------------------------
(* updateExpiredReservations *)

\* Variant: the end time is compared with lte instead of lt.
ExpiredWhereLte(r, today, currentTime) ==
    /\ r.status = "ongoing"
    /\ \/ StrLt(r.reservationDate, today)
       \/ /\ r.reservationDate = today
          /\ ~StrLt(currentTime, r.endTime)

\* The where clause of the findMany
ExpiredWhere(r, today, currentTime) ==
    /\ r.status = "ongoing"
    /\ \/ StrLt(r.reservationDate, today)
       \/ /\ r.reservationDate = today
          /\ StrLt(r.endTime, currentTime)

\* Variant: the per-record update writes duration 0 whatever the record had.
ExpiredDataZeroDuration(reservation) ==
    [NoData EXCEPT !.status = Some("completed"), !.callDuration = Some(Some(0))]

\* Variant: the per-record update writes the duration but not the status.
ExpiredDataKeepsStatus(reservation) ==
    [NoData EXCEPT
        !.callDuration =
            Some(IF reservation.callDuration = None \/ reservation.callDuration = Some(0)
                 THEN Some(0) ELSE reservation.callDuration)]

\* The data of each per-record update
ExpiredData(reservation) ==
    [NoData EXCEPT
        !.status = Some("completed"),
        !.callDuration =
            Some(IF reservation.callDuration = None \/ reservation.callDuration = Some(0)
                 THEN Some(0) ELSE reservation.callDuration)]

updateExpiredReservations ==
    LET today       == Today(now)
        currentTime == CurrentTime(now, tz)
        expired     == {k \in DOMAIN callReservation :
                           ExpiredWhere(callReservation[k], today, currentTime)}
    IN  /\ lastReq' = Req("sweep", None, NoData, now)
        /\ callReservation' =
              [k \in DOMAIN callReservation |->
                  IF k \in expired
                  THEN ApplyData(callReservation[k],
                                 ExpiredData(callReservation[k]), now)
                  ELSE callReservation[k]]
        /\ lastRes' = Res(200, {callReservation'[k] : k \in expired})
        /\ UNCHANGED <<nextId, now, tz>>

----------------------------------------------------------------------------
(* The call router: values of a call event *)

\* A parameter of a call event as the body parsers deliver it: absent, a
\* string, or something that is not a string (a JSON number, an array from a
\* repeated key: truthy, and without string methods).
Absent == [shape |-> "absent"]

Str(s) == [shape |-> "string", s |-> s]

NotAString == [shape |-> "other"]

IsStr(v) == v.shape = "string"

Truthy(v) == v.shape = "other" \/ (IsStr(v) /\ v.s # <<>>)

\* a || b
Or(a, b) == IF Truthy(a) THEN a ELSE b

\* s.startsWith(p)
StartsWith(s, p) == Len(s) >= Len(p) /\ SubSeq(s, 1, Len(p)) = p

\* s.replace(p, "") : the first occurrence of p removed
RECURSIVE ReplaceFirst(_, _)
ReplaceFirst(s, p) ==
    IF StartsWith(s, p) THEN SubSeq(s, Len(p) + 1, Len(s))
    ELSE IF s = <<>> THEN s
    ELSE <<Head(s)>> \o ReplaceFirst(Tail(s), p)

\* "client:", "sip:", "client:anonymous", "unknown"
ClientPrefix == <<99, 108, 105, 101, 110, 116, 58>>

SipPrefix == <<115, 105, 112, 58>>

ClientAnonymous == ClientPrefix \o <<97, 110, 111, 110, 121, 109, 111, 117, 115>>

Unknown == <<117, 110, 107, 110, 111, 119, 110>>

\* Variant: the pattern without its first-digit class, /^\+?\d{2,15}$/
IsPhoneNumberAnyFirstDigit(to) ==
    LET digits == IF to # <<>> /\ Head(to) = 43 THEN Tail(to) ELSE to
    IN  /\ Len(digits) \in 2..15
        /\ \A i \in DOMAIN digits : IsDigit(digits[i])

\* /^\+?[1-9]\d{1,14}$/.test(to)
IsPhoneNumber(to) ==
    LET rest == IF to # <<>> /\ Head(to) = 43 THEN Tail(to) ELSE to
    IN  /\ rest # <<>>
        /\ Head(rest) \in 49..57
        /\ Len(Tail(rest)) >= 1
        /\ Len(Tail(rest)) <= 14
        /\ \A i \in DOMAIN Tail(rest) : IsDigit(Tail(rest)[i])

----------------------------------------------------------------------------
(* The call router: the TwiML it builds *)

NoDestinationMessage == "No destination specified. Please provide a valid destination."

NoOneAvailableMessage ==
    "Thank you for calling. No one is available right now. Please try again later."

ErrorMessage == "We encountered an error processing your call. Please try again later."

\* response.say({voice: "alice", language: "en-US"}, message)
Say(message) == [verb |-> "Say", language |-> "en-US", message |-> message]

\* response.dial(attributes), before a noun is added to it.  timeout is None
\* when the attribute is not given.
Dial(callerId, timeout) ==
    [verb |-> "Dial", callerId |-> callerId, answerOnBridge |-> TRUE,
     timeout |-> timeout, noun |-> None]

\* dial.client(x), dial.sip(x), dial.number({statusCallback...}, x)
WithNoun(dial, kind, address) ==
    [dial EXCEPT !.noun = Some([kind |-> kind, address |-> address,
                                statusCallback |-> kind = "number"])]

\* What a handler did: res.type("text/xml").send(response.toString()), or an
\* exception that left the handler.
Sent(twiml) == [outcome |-> "sent", twiml |-> twiml]

Threw == [outcome |-> "threw", twiml |-> <<>>]

CallEvent(handler, body, query) == [handler |-> handler, body |-> body, query |-> query]

----------------------------------------------------------------------------
(* voiceResponse *)

\* Variant: only an absent To counts as no destination, not an empty one.
NoDestinationAbsentOnly(to) == to.shape = "absent"

\* !to
NoDestination(to) == ~Truthy(to)

\* const callerId = isClientFrom ? config.twilio.callerId || from : from
ResolvedCallerId(from, configured) ==
    IF StartsWith(from, ClientPrefix) /\ configured # None /\ Val(configured) # <<>>
    THEN Val(configured)
    ELSE from

\* Variant: the phone branch presents the resolved value, like the others.
PhoneCallerIdResolvedOnly(callerId, configured) == callerId

\* isPhoneNumber ? config.twilio.callerId || callerId : callerId, for a phone
PhoneCallerId(callerId, configured) ==
    IF configured # None /\ Val(configured) # <<>> THEN Val(configured) ELSE callerId

\* The dial the try block builds for a destination string.
OutboundDial(to, callerId, configured) ==
    IF StartsWith(to, ClientPrefix)
    THEN WithNoun(Dial(Str(callerId), Some(20)), "client", ReplaceFirst(to, ClientPrefix))
    ELSE IF StartsWith(to, SipPrefix)
    THEN WithNoun(Dial(Str(callerId), None), "sip", to)
    ELSE IF IsPhoneNumber(to)
    THEN WithNoun(Dial(Str(PhoneCallerId(callerId, configured)), Some(20)), "number", to)
    ELSE WithNoun(Dial(Str(callerId), Some(20)), "client", to)

voiceResponse(req) ==
    LET to   == Or(req.body.To, req.query.To)
        from == Or(Or(req.body.From, req.query.From), Str(ClientAnonymous))
    IN  /\ callReq' = req
        /\ callRes' =
              \* from.startsWith is called before the try block
              IF ~IsStr(from) THEN Threw
              ELSE IF NoDestination(to) THEN Sent(<<Say(NoDestinationMessage)>>)
              \* to.startsWith throws inside the try block: caught
              ELSE IF ~IsStr(to) THEN Sent(<<Say(ErrorMessage)>>)
              ELSE Sent(<<OutboundDial(to.s, ResolvedCallerId(from.s, twilioCallerId),
                                       twilioCallerId)>>)
        /\ UNCHANGED twilioCallerId

----------------------------------------------------------------------------
(* incomingCall *)

incomingCall(req) ==
    LET to   == Or(req.body.To, req.query.To)
        from == Or(Or(req.body.From, req.query.From), Str(Unknown))
        \* response.dial is called first, whatever To is
        dial == Dial(from, None)
    IN  /\ callReq' = req
        /\ callRes' =
              IF ~Truthy(to) THEN Sent(<<dial, Say(NoOneAvailableMessage)>>)
              \* to.startsWith throws: caught, the apology is added
              ELSE IF ~IsStr(to) THEN Sent(<<dial, Say(ErrorMessage)>>)
              ELSE IF StartsWith(to.s, ClientPrefix)
              THEN Sent(<<WithNoun(dial, "client", ReplaceFirst(to.s, ClientPrefix))>>)
              ELSE Sent(<<dial, Say(NoOneAvailableMessage)>>)
        /\ UNCHANGED twilioCallerId

----------------------------------------------------------------------------
(* The call events explored, and the router's specification *)

\* "bob", "+15550100", "+15550199", "client:alice"
Bob == <<98, 111, 98>>

VerifiedNumber == <<43, 49, 53, 53, 53, 48, 49, 48, 48>>

CallerNumber == <<43, 49, 53, 53, 53, 48, 49, 57, 57>>

ClientAlice == ClientPrefix \o <<97, 108, 105, 99, 101>>

\* Destinations: none, empty, client:bob, client: alone, client:client:bob,
\* sip:bob, +14155551234, 12, 1, +1, 012, 15 digits, 16 digits, bob, +12a,
\* and one that is not a string.
ToValues ==
    {Absent, Str(<<>>), Str(ClientPrefix \o Bob), Str(ClientPrefix),
     Str(ClientPrefix \o ClientPrefix \o Bob), Str(SipPrefix \o Bob),
     Str(<<43, 49, 52, 49, 53, 53, 53, 53, 49, 50, 51, 52>>),
     Str(<<49, 50>>), Str(<<49>>), Str(<<43, 49>>), Str(<<48, 49, 50>>),
     Str(<<49, 50, 51, 52, 53, 54, 55, 56, 57, 48, 49, 50, 51, 52, 53>>),
     Str(<<49, 50, 51, 52, 53, 54, 55, 56, 57, 48, 49, 50, 51, 52, 53, 54>>),
     Str(Bob), Str(<<43, 49, 50, 97>>), NotAString}

FromValues == {Absent, Str(<<>>), Str(ClientAlice), Str(CallerNumber), NotAString}

\* POST bodies, and query strings that carry nothing or only a To (possibly
\* empty).
CallBodies == [To : ToValues, From : FromValues]

CallQueries == [To : {Absent, Str(<<>>), Str(ClientPrefix \o Bob)}, From : {Absent}]

\* config.twilio.callerId : unset, empty, a verified number
CallerIdConfigs == {None, Some(<<>>), Some(VerifiedNumber)}

NoCall == CallEvent("none", [To |-> Absent, From |-> Absent],
                    [To |-> Absent, From |-> Absent])

RouterIdle ==
    /\ twilioCallerId = None
    /\ callReq = NoCall
    /\ callRes = [outcome |-> "none", twiml |-> <<>>]

\* POST /api/twilio/voice
VoiceResponse ==
    /\ \E body \in CallBodies, query \in CallQueries :
          voiceResponse(CallEvent("voiceResponse", body, query))
    /\ UNCHANGED <<resVars, sweepVars>>

\* POST /api/twilio/incoming
IncomingCall ==
    /\ \E body \in CallBodies, query \in CallQueries :
          incomingCall(CallEvent("incomingCall", body, query))
    /\ UNCHANGED <<resVars, sweepVars>>

----------------------------------------------------------------------------
(* The clock, the initial stores, the specification *)

\* A step of the explored run: a request handled or the clock advancing.
Step == steps < MaxSteps /\ steps' = steps + 1

Tick ==
    /\ Step
    /\ now' = now + TickMinutes
    /\ UNCHANGED <<callReservation, nextId, tz, lastReq, lastRes>>
    /\ UNCHANGED <<routerVars, sweepVars>>

\* Rows a store can hold when the server starts, each reached earlier by a
\* Create and Updates: ongoing and overdue by date, ongoing and overdue by
\* time of day, ongoing and ending this very minute, and one of each other
\* status.
StoredKinds ==
    {[d |-> Date0101, e |-> Time1800, s |-> "ongoing",   c |-> None],
     [d |-> Date0102, e |-> Time0900, s |-> "ongoing",   c |-> Some(30)],
     [d |-> Date0102, e |-> Time1200, s |-> "ongoing",   c |-> None],
     [d |-> Date0101, e |-> Time0900, s |-> "scheduled", c |-> None],
     [d |-> Date0101, e |-> Time0900, s |-> "completed", c |-> Some(30)],
     [d |-> Date0101, e |-> Time0900, s |-> "cancelled", c |-> None]}

StoredRow(id, kind) ==
    [NewRow(id, UserAl, kind.d, Time0800, kind.e, None, Epoch)
        EXCEPT !.status = kind.s, !.callDuration = kind.c]

InitialStores ==
    {<<>>}
    \cup {<<StoredRow(1, a)>> : a \in StoredKinds}
    \cup {<<StoredRow(1, a), StoredRow(2, b)>> : a \in StoredKinds, b \in StoredKinds}

\* No sweep request is in progress.
SweepsIdle == sweeps = <<>>

\* The server has started on a store: nothing handled yet.
InitStore(zones) ==
    /\ callReservation \in InitialStores
    /\ nextId = Len(callReservation) + 1
    /\ now = StartNow
    /\ tz \in zones
    /\ lastReq = Req("none", None, NoData, StartNow)
    /\ lastRes = Res(0, {})
    /\ steps = 0

Init ==
    /\ InitStore(TzOffsets)
    /\ RouterIdle
    /\ SweepsIdle
    /\ startStore = <<>>

\* POST /api/reservations
Create ==
    /\ Step
    /\ \E body \in CreateBodies : createReservation(body)
    /\ UNCHANGED <<routerVars, sweepVars>>

\* GET /api/reservations/:id
GetById ==
    /\ Step
    /\ \E id \in IdParams : getReservationById(id)
    /\ UNCHANGED <<routerVars, sweepVars>>

\* PUT /api/reservations/:id
Update ==
    /\ Step
    /\ \E id \in UpdateIdParams, body \in UpdateBodies : updateReservation(id, body)
    /\ UNCHANGED <<routerVars, sweepVars>>

\* POST /api/reservations/update-expired
SweepExpired ==
    /\ Step
    /\ updateExpiredReservations
    /\ UNCHANGED <<routerVars, sweepVars>>

Next ==
    \/ Create
    \/ GetById
    \/ Update
    \/ SweepExpired
    \/ Tick

Spec == Init /\ [][Next]_vars

\* The router alone, under each caller-id configuration, on an empty store.
RouterInit ==
    /\ callReservation = <<>>
    /\ nextId = 1
    /\ now = StartNow
    /\ tz = 0
    /\ lastReq = Req("none", None, NoData, StartNow)
    /\ lastRes = Res(0, {})
    /\ steps = 0
    /\ startStore = <<>>
    /\ SweepsIdle
    /\ twilioCallerId \in CallerIdConfigs
    /\ callReq = NoCall
    /\ callRes = [outcome |-> "none", twiml |-> <<>>]

RouterNext == VoiceResponse \/ IncomingCall

RouterSpec == RouterInit /\ [][RouterNext]_vars

----------------------------------------------------------------------------
(* updateExpiredReservations, step by step: the findMany, then one update  *)
(* per record found, landing in any order, then the answer                 *)

\* Variant: the findMany without its status condition.
expiredReservationsAnyStatus(table, t, offset) ==
    {table[k] : k \in {j \in DOMAIN table :
        \/ StrLt(table[j].reservationDate, Today(t))
        \/ /\ table[j].reservationDate = Today(t)
           /\ StrLt(table[j].endTime, CurrentTime(t, offset))}}

\* const expiredReservations = await prisma.callReservation.findMany(...)
expiredReservations(table, t, offset) ==
    {table[k] : k \in {j \in DOMAIN table :
        ExpiredWhere(table[j], Today(t), CurrentTime(t, offset))}}

\* A sweep request: where it is, the clock it read, the records its findMany
\* returned, the ids whose update has not landed yet, the records its updates
\* returned, whether an update threw, its answer.  after is history: the
\* requests that had crashed before this one's findMany.
IdleSweep ==
    [pc |-> "idle", at |-> StartNow, batch |-> {}, pending |-> {},
     updated |-> {}, threw |-> FALSE, res |-> Res(0, {}), after |-> {}]

\* The record of the batch with this id.
Snapshot(p, id) == CHOOSE r \in sweeps[p].batch : r.id = id

\* Lines 398-427: the clock is read and the batch found.
FindExpired(p) ==
    /\ sweeps[p].pc = "idle"
    /\ LET found == expiredReservations(callReservation, now, tz)
       IN  sweeps' = [sweeps EXCEPT ![p] =
              [@ EXCEPT !.pc = "updating", !.at = now, !.batch = found,
                        !.pending = {r.id : r \in found},
                        !.after = {q \in DOMAIN sweeps : sweeps[q].pc = "crashed"}]]
    /\ UNCHANGED <<resVars, routerVars, startStore>>

\* Lines 444-451: one of the updates lands.  It names the record by id only,
\* and its data comes from the batch; it throws when the record is gone.
UpdateExpired(p, id) ==
    /\ sweeps[p].pc = "updating"
    /\ id \in sweeps[p].pending
    /\ LET data == ExpiredData(Snapshot(p, id))
       IN  IF UpdateThrows(callReservation, id, data)
           THEN /\ sweeps' = [sweeps EXCEPT ![p] =
                      [@ EXCEPT !.pending = @ \ {id}, !.threw = TRUE]]
                /\ UNCHANGED callReservation
           ELSE /\ callReservation' = UpdateRow(callReservation, id, data, now)
                /\ sweeps' = [sweeps EXCEPT ![p] =
                      [@ EXCEPT !.pending = @ \ {id},
                                !.updated = @ \cup
                                   {callReservation'[IndexOf(callReservation, id)]}]]
    /\ UNCHANGED <<nextId, now, tz, lastReq, lastRes, steps, routerVars, startStore>>

\* Lines 433-439 and 459-465: the answer, once every update has settled.
AnswerExpired(p) ==
    /\ sweeps[p].pc = "updating"
    /\ sweeps[p].pending = {}
    /\ sweeps' = [sweeps EXCEPT ![p] =
          [@ EXCEPT !.pc = "done",
                    !.res = IF sweeps[p].threw THEN handleError
                            ELSE Res(200, sweeps[p].updated)]]
    /\ UNCHANGED <<resVars, routerVars, startStore>>

\* The server dies while updates of this request are still to land.
CrashExpired(p) ==
    /\ sweeps[p].pc = "updating"
    /\ sweeps[p].pending # {}
    /\ sweeps' = [sweeps EXCEPT ![p] = [@ EXCEPT !.pc = "crashed"]]
    /\ UNCHANGED <<resVars, routerVars, startStore>>

SweepRead == \E p \in DOMAIN sweeps : FindExpired(p)

SweepWrite == \E p \in DOMAIN sweeps : \E id \in sweeps[p].pending : UpdateExpired(p, id)

SweepAnswer == \E p \in DOMAIN sweeps : AnswerExpired(p)

SweepCrash == \E p \in DOMAIN sweeps : CrashExpired(p)

\* The server has started on one of these stores and is to receive these
\* sweep requests.
SweepStart(requests, stores) ==
    /\ InitStore(TzOffsets)
    /\ callReservation \in stores
    /\ RouterIdle
    /\ sweeps = [p \in requests |-> IdleSweep]
    /\ startStore = callReservation

\* Two sweep requests, overlapping or one after the other, while the clock
\* advances; a request can die with the server.
SweepNext ==
    \/ SweepRead
    \/ SweepWrite
    \/ SweepAnswer
    \/ SweepCrash
    \/ Tick

SweepInit == SweepStart({"first", "second"}, InitialStores)

SweepSpec == SweepInit /\ [][SweepNext]_vars

\* One sweep request while Update requests are handled.
RaceNext ==
    \/ SweepRead
    \/ SweepWrite
    \/ SweepAnswer
    \/ Update

\* The race is for one record: stores of at most one row.
RaceInit == SweepStart({"first"}, {store \in InitialStores : Len(store) <= 1})

RaceSpec == RaceInit /\ [][RaceNext]_vars

----------------------------------------------------------------------------
(* The sweep on servers whose local time is not UTC *)

\* getHours() and getMinutes() are local: UTC, and thirteen hours east of it.
LocalZones == {0, 13 * 60}

ZoneInit ==
    /\ InitStore(LocalZones)
    /\ RouterIdle
    /\ SweepsIdle
    /\ startStore = <<>>

ZoneNext == SweepExpired \/ Tick

ZoneSpec == ZoneInit /\ [][ZoneNext]_vars

----------------------------------------------------------------------------
(* Properties *)

\* This step is the handling of one request of kind op.
Handled(op) == steps' = steps + 1 /\ now' = now /\ lastReq'.op = op

\* C1. SweepExpired is idempotent: when a sweep directly follows a sweep at
\* the same clock value, the second one returns no record and leaves the
\* store as it found it.
SweepIdempotent ==
    [][(lastReq.op = "sweep" /\ Handled("sweep") /\ lastReq'.at = lastReq.at)
          => /\ callReservation' = callReservation
             /\ lastRes'.code = 200
             /\ lastRes'.data = {}]_vars

\* A second sweep has answered with nothing, after a first one (the only
\* writer of a zero duration among the explored requests) completed a row at
\* this same clock value.
SweepTwiceSeen ==
    /\ steps = 2
    /\ lastReq.op = "sweep"
    /\ lastRes.data = {}
    /\ \E k \in DOMAIN callReservation :
          /\ callReservation[k].status = "completed"
          /\ callReservation[k].callDuration = Some(0)
          /\ callReservation[k].updatedAt = lastReq.at

\* The selection the sweep is specified to make, at the date and time of day
\* the handler computed.
Overdue(r, t, offset) ==
    /\ r.status = "ongoing"
    /\ \/ StrLt(r.reservationDate, Today(t))
       \/ r.reservationDate = Today(t) /\ StrLt(r.endTime, CurrentTime(t, offset))

\* C2. A sweep changes exactly the ongoing reservations that are overdue:
\* each becomes completed with its previous callDuration, or 0 if it had
\* none; every other reservation keeps its status and callDuration; the
\* records returned are exactly the changed ones.
SweepCompletesExactlyOverdue ==
    [][Handled("sweep") =>
          /\ DOMAIN callReservation' = DOMAIN callReservation
          /\ \A k \in DOMAIN callReservation :
                LET r == callReservation[k]
                    q == callReservation'[k]
                IN  IF Overdue(r, now, tz)
                    THEN /\ q.status = "completed"
                         /\ q.callDuration =
                               IF r.callDuration = None THEN Some(0) ELSE r.callDuration
                         /\ q \in lastRes'.data
                    ELSE /\ q = r
                         /\ q \notin lastRes'.data
          /\ lastRes'.data \subseteq RowSet(callReservation')]_vars

\* A sweep has completed a row with the default duration 0 and left an
\* ongoing row that is not overdue.
SweepMixedSeen ==
    /\ lastReq.op = "sweep"
    /\ \E r \in lastRes.data : r.callDuration = Some(0)
    /\ \E k \in DOMAIN callReservation : callReservation[k].status = "ongoing"

\* C3. Every stored reservation's status is one of the four defined values.
StatusDefined ==
    \A k \in DOMAIN callReservation : callReservation[k].status \in Statuses

\* C4. A reservation that is completed has its callDuration set (0 when it
\* was unknown at the transition).
CompletedHasDuration ==
    \A k \in DOMAIN callReservation :
        callReservation[k].status = "completed"
            => callReservation[k].callDuration # None

\* C5. An Update naming an id that no reservation has is answered 404 (not
\* 500) and changes no reservation.
UpdateUnknownIdIs404 ==
    [][(/\ Handled("update")
        /\ ParseInt(Val(lastReq'.id)) # None
        /\ ~HasId(callReservation, Val(ParseInt(Val(lastReq'.id)))))
          => /\ lastRes'.code = 404
             /\ callReservation' = callReservation]_vars

\* A well-formed positive integer: digits only, at least one, value above 0.
WellFormedId(s) ==
    /\ s # <<>>
    /\ \A i \in DOMAIN s : IsDigit(s[i])
    /\ DigitsValue(s, 0) > 0

\* C6. GetById answers 400 exactly when the id is not a well-formed positive
\* integer, 404 when it is well formed and no record has it, and otherwise
\* the single record with that id; the store is unchanged in every case.
GetByIdContract ==
    [][Handled("get") =>
          LET id == Val(lastReq'.id)
              n  == DigitsValue(id, 0)
          IN  /\ (lastRes'.code = 400) <=> ~WellFormedId(id)
              /\ (WellFormedId(id) /\ ~HasId(callReservation, n))
                    => lastRes'.code = 404
              /\ (WellFormedId(id) /\ HasId(callReservation, n))
                    => /\ lastRes'.code = 200
                       /\ lastRes'.data = {callReservation[IndexOf(callReservation, n)]}
              /\ callReservation' = callReservation]_vars

\* C7. Every reservation still has the id it was created with, and no two
\* reservations share an id.
IdImmutableUnique ==
    /\ \A k \in DOMAIN callReservation :
          callReservation[k].id = callReservation[k].origId
    /\ \A j, k \in DOMAIN callReservation :
          j # k => callReservation[j].id # callReservation[k].id

\* C8. A Create whose username, reservationDate, startTime or endTime is
\* missing or empty is answered 400 and persists nothing.
CreateRejectsMissingField ==
    [][(/\ Handled("create")
        /\ \E f \in Required :
              lastReq'.body[f] = None \/ lastReq'.body[f] = Some(<<>>))
          => /\ lastRes'.code = 400
             /\ lastRes'.data = {}
             /\ callReservation' = callReservation
             /\ nextId' = nextId]_vars

\* A Create without endTime was refused while the store held reservations.
CreateRefusedSeen ==
    /\ lastReq.op = "create"
    /\ lastReq.body.endTime = None
    /\ lastRes.code = 400
    /\ callReservation # <<>>

\* C9. A successful Create adds exactly one reservation, in status scheduled
\* whatever the body carries, under an id no reservation had, and leaves the
\* existing reservations unchanged.
CreateAddsOneScheduled ==
    [][(Handled("create") /\ lastRes'.code = 201) =>
          LET n == Len(callReservation)
          IN  /\ Len(callReservation') = n + 1
              /\ SubSeq(callReservation', 1, n) = callReservation
              /\ callReservation'[n + 1].status = "scheduled"
              /\ ~HasId(callReservation, callReservation'[n + 1].id)
              /\ lastRes'.data = {callReservation'[n + 1]}]_vars

\* A Create whose body carried status "completed" succeeded next to an
\* existing reservation, and the new reservation is scheduled.
CreateWithStatusSeen ==
    /\ lastReq.op = "create"
    /\ lastReq.body.status = Some("completed")
    /\ lastRes.code = 201
    /\ Len(callReservation) >= 2
    /\ callReservation[Len(callReservation)].status = "scheduled"

\* C10. A successful Update writes only what it was given: without a
\* callDuration the reservation keeps its callDuration, without a status its
\* status; updatedAt is always set to the time of the update; every other
\* reservation is unchanged.
UpdateMergesSupplied ==
    [][(Handled("update") /\ lastRes'.code = 200) =>
          LET body == lastReq'.body
              k    == IndexOf(callReservation, Val(ParseInt(Val(lastReq'.id))))
          IN  /\ DOMAIN callReservation' = DOMAIN callReservation
              /\ body.callDuration = None
                    => callReservation'[k].callDuration = callReservation[k].callDuration
              /\ body.status = None
                    => callReservation'[k].status = callReservation[k].status
              /\ callReservation'[k].updatedAt = now
              /\ \A j \in DOMAIN callReservation :
                    j # k => callReservation'[j] = callReservation[j]]_vars

----------------------------------------------------------------------------
(* Properties of the call router *)

\* The To and From a handler works with, and the Dial and Say verbs it sent.
EventTo == Or(callReq.body.To, callReq.query.To)

EventFrom == Or(callReq.body.From, callReq.query.From)

Dials == {i \in DOMAIN callRes.twiml : callRes.twiml[i].verb = "Dial"}

Says == {i \in DOMAIN callRes.twiml : callRes.twiml[i].verb = "Say"}

\* An outbound event whose From is a string or absent, as the interface
\* declares it.
OutboundEvent ==
    callReq.handler = "voiceResponse" /\ EventFrom.shape \in {"absent", "string"}

\* The phone pattern as the design states it: an optional +, then 2 to 15
\* digits, the first of them 1-9.
PhonePattern(d) ==
    LET n == Len(d)
        k == IF n > 0 /\ d[1] = 43 THEN 2 ELSE 1
    IN  /\ n - k + 1 >= 2
        /\ n - k + 1 <= 15
        /\ d[k] \in 49..57
        /\ \A i \in k..n : d[i] \in 48..57

\* The Classifier of the design, rules in order.
Classify(to) ==
    IF to.shape = "absent" \/ to.s = <<>>
    THEN [kind |-> "unspecified", address |-> <<>>]
    ELSE IF Len(to.s) >= 7 /\ SubSeq(to.s, 1, 7) = ClientPrefix
    THEN [kind |-> "client", address |-> SubSeq(to.s, 8, Len(to.s))]
    ELSE IF Len(to.s) >= 4 /\ SubSeq(to.s, 1, 4) = SipPrefix
    THEN [kind |-> "sip", address |-> to.s]
    ELSE IF PhonePattern(to.s)
    THEN [kind |-> "phone", address |-> to.s]
    ELSE [kind |-> "client", address |-> to.s]

\* The noun kind that dials a target kind.
NounOf(kind) == IF kind = "phone" THEN "number" ELSE kind

\* C11. For every destination string (or none), the outbound router's dial
\* target is the Classifier's: nothing dialled for unspecified, otherwise one
\* Dial whose noun has the classified kind and address.
DialTargetMatchesClassifier ==
    (OutboundEvent /\ EventTo.shape \in {"absent", "string"}) =>
        LET c == Classify(EventTo)
        IN  /\ callRes.outcome = "sent"
            /\ IF c.kind = "unspecified"
               THEN Dials = {}
               ELSE /\ Len(callRes.twiml) = 1
                    /\ Dials = {1}
                    /\ callRes.twiml[1].noun =
                          Some([kind |-> NounOf(c.kind), address |-> c.address,
                                statusCallback |-> c.kind = "phone"])

\* A 15-digit destination was dialled as a phone number.
PhoneDialledSeen ==
    /\ callReq.handler = "voiceResponse"
    /\ callRes.outcome = "sent"
    /\ Dials = {1}
    /\ IsStr(EventTo)
    /\ Len(EventTo.s) = 15
    /\ Val(callRes.twiml[1].noun).kind = "number"

\* C12. The callerId the outbound router presents is the Resolver's: for a
\* phone target the verified number when one is configured, otherwise the
\* resolved value (the verified number if From is a client identity and one
\* is configured, else From, which defaults to client:anonymous).
CallerIdMatchesResolver ==
    (OutboundEvent /\ IsStr(EventTo) /\ EventTo.s # <<>>) =>
        LET from       == IF IsStr(EventFrom) /\ EventFrom.s # <<>>
                          THEN EventFrom.s ELSE ClientAnonymous
            configured == twilioCallerId # None /\ twilioCallerId # Some(<<>>)
            resolved   == IF configured /\ Len(from) >= 7
                                        /\ SubSeq(from, 1, 7) = ClientPrefix
                          THEN twilioCallerId[1] ELSE from
            expected   == IF Classify(EventTo).kind = "phone" /\ configured
                          THEN twilioCallerId[1] ELSE resolved
        IN  /\ Dials = {1}
            /\ callRes.twiml[1].callerId = Str(expected)

\* A phone number was dialled for a caller that gave its own number while a
\* verified number is configured: the verified number is presented.
VerifiedNumberPresentedSeen ==
    /\ callReq.handler = "voiceResponse"
    /\ EventFrom = Str(CallerNumber)
    /\ twilioCallerId = Some(VerifiedNumber)
    /\ Dials = {1}
    /\ Val(callRes.twiml[1].noun).kind = "number"
    /\ callRes.twiml[1].callerId = Str(VerifiedNumber)

\* C13. Every connection instruction (a Dial with a target), outbound or
\* inbound, carries timeout 20 and answerOnBridge true.
EveryDialHasTimeout20 ==
    \A i \in Dials :
        callRes.twiml[i].noun # None
            => /\ callRes.twiml[i].timeout = Some(20)
               /\ callRes.twiml[i].answerOnBridge

\* C14. Outbound, an empty or absent To gives exactly the "no destination"
\* message and no connection instruction.
NoDestinationFallback ==
    (OutboundEvent /\ (EventTo.shape = "absent" \/ EventTo = Str(<<>>))) =>
        callRes = [outcome |-> "sent",
                   twiml   |-> <<[verb |-> "Say", language |-> "en-US",
                                  message |-> NoDestinationMessage]>>]

\* An outbound event with an empty To (none in the body, an empty one in the
\* query) was answered with a message.
EmptyToSeen ==
    /\ callReq.handler = "voiceResponse"
    /\ callReq.body.To = Absent
    /\ EventTo = Str(<<>>)
    /\ callRes.outcome = "sent"
    /\ Says = {1}

\* C15. The output is never both a Dial and a spoken message; inbound with a
\* To that is absent or not a client: target, and in either mode when
\* building the instruction fails (a To without string methods), the output
\* is the spoken message without any Dial.
NeverDialAndSay ==
    /\ ~(Dials # {} /\ Says # {})
    /\ (/\ callReq.handler = "incomingCall"
        /\ \/ ~Truthy(EventTo)
           \/ IsStr(EventTo) /\ Classify(EventTo).kind # "client")
          => (Says # {} /\ Dials = {})
    /\ (callReq.handler # "none" /\ callRes.outcome = "sent" /\ EventTo = NotAString)
          => (Says # {} /\ Dials = {})

\* C16. Every call event, whatever the shape of its parameters, ends with
\* the handler sending a TwiML document that holds an instruction or a
\* message.
AlwaysRenders ==
    callReq.handler # "none" => (callRes.outcome = "sent" /\ callRes.twiml # <<>>)

----------------------------------------------------------------------------
(* Properties of overlapping sweeps *)

\* The ids a sweep request's updates have written.
Written(p) == {r.id : r \in sweeps[p].updated}

\* C17. When a sweep request crashed with only some of its updates landed,
\* a later sweep request (its findMany after the crash) that runs to its
\* answer completes the batch: it answers 200, no reservation that is
\* ongoing and overdue at its clock remains, and it writes none of the
\* records the crashed request had written.
CrashedSweepIsCompleted ==
    \A p \in DOMAIN sweeps, q \in DOMAIN sweeps :
        (sweeps[p].pc = "crashed" /\ p \in sweeps[q].after /\ sweeps[q].pc = "done")
            => /\ sweeps[q].res.code = 200
               /\ \A k \in DOMAIN callReservation :
                     ~Overdue(callReservation[k], sweeps[q].at, tz)
               /\ Written(q) \cap Written(p) = {}

\* A sweep request crashed with one update landed and one not, and the
\* request after it completed the record left over.
CrashThenCompleteSeen ==
    \E p \in DOMAIN sweeps, q \in DOMAIN sweeps :
        /\ sweeps[p].pc = "crashed"
        /\ Written(p) # {}
        /\ sweeps[p].pending # {}
        /\ p \in sweeps[q].after
        /\ sweeps[q].pc = "done"
        /\ Written(q) = sweeps[p].pending

\* C18. With Updates handled while a sweep runs, an update of the sweep
\* completes only a reservation that is still ongoing when it lands, and
\* leaves a callDuration that an Update wrote after the sweep's findMany.
SweepWritePreservesUpdates ==
    [][\A p \in DOMAIN sweeps :
          \A id \in sweeps[p].pending \ sweeps'[p].pending :
              HasId(callReservation, id) =>
                  LET k    == IndexOf(callReservation, id)
                      pre  == callReservation[k]
                      post == callReservation'[k]
                  IN  /\ pre.status # "ongoing" => post.status = pre.status
                      /\ pre.callDuration # Snapshot(p, id).callDuration
                            => post.callDuration = pre.callDuration]_vars

\* C19. Two sweep requests, their findMany and updates interleaved in any
\* way and nothing else running, leave what one sweep leaves: once both have
\* answered, every reservation that was ongoing and overdue (at the clock of
\* either) is completed with its previous callDuration, or 0 if it had none,
\* and every other reservation is as it was.
TwoSweepsAsOne ==
    (\A p \in DOMAIN sweeps : sweeps[p].pc = "done") =>
        /\ DOMAIN callReservation = DOMAIN startStore
        /\ \A k \in DOMAIN startStore :
              LET r == startStore[k]
                  q == callReservation[k]
              IN  IF \E p \in DOMAIN sweeps : Overdue(r, sweeps[p].at, tz)
                  THEN q = [r EXCEPT
                              !.status = "completed",
                              !.callDuration = IF @ = None THEN Some(0) ELSE @,
                              !.updatedAt = q.updatedAt]
                  ELSE q = r

\* Both requests read the same record before either wrote it, both wrote
\* it, and both have answered.
OverlappingSweepsSeen ==
    /\ \A p \in DOMAIN sweeps : sweeps[p].pc = "done"
    /\ \E p \in DOMAIN sweeps, q \in DOMAIN sweeps :
          /\ p # q
          /\ Written(p) \cap Written(q) # {}
          /\ \E r \in sweeps[p].updated : r.callDuration = Some(30)

----------------------------------------------------------------------------
(* Properties of the sweep's clock *)

\* C20. The date and the time of day a sweep selects by are one instant in
\* one timezone (UTC, or the server's local one): the sweep completes
\* exactly the ongoing reservations whose reservationDate and endTime are
\* strictly earlier than that instant.
SweepClockIsOneInstant ==
    [][Handled("sweep") =>
          \E zone \in {0, tz} :
              \A k \in DOMAIN callReservation :
                  callReservation[k].status = "ongoing" =>
                      (callReservation'[k].status = "completed"
                          <=> Overdue(callReservation[k], now + zone, 0))]_vars

====
